---- MODULE Spec2Model ----
(***************************************************************************)
(* A model of scripts/paper_collector.py: the classifier                   *)
(* (extract_clinical_info), the duplicate detector (check_duplicate_title),*)
(* the relevance router (find_best_target_node), the graph mutator         *)
(* (add_paper_to_graph) and the collection run (main).                     *)
(*                                                                         *)
(* A Python str is a sequence of one-character strings, so that `in`,      *)
(* startswith, lower(), concatenation, str(int) and the code-point order   *)
(* used by sort() are computed, not assumed.                               *)
(***************************************************************************)
EXTENDS Integers, Sequences, FiniteSets, TLC

VARIABLES
    file,        \* the graph document at GRAPH_FILE: NoFile or a graph
    graph,       \* main's local `graph`
    added_count, \* main's local `added_count`
    pc,          \* position of the run
    qi,          \* index of the query the outer loop of main is at
    pmids,       \* the identifiers the inner loop of main has still to visit
    paper,       \* the paper handed to the classifier or the router under study
    result,      \* what the last loop iteration's add_paper_to_graph returned
                 \* (NoResult when it made no call), or the value returned by
                 \* the operation under study
    loads,       \* number of calls of load_graph so far
    saves        \* number of calls of save_graph so far

vars == <<file, graph, added_count, pc, qi, pmids, paper, result, loads, saves>>

----------------------------------------------------------------------------
(* Strings *)

\* printable ASCII in code-point order (32 .. 126); "GRAVE" stands for the
\* grave accent (96), which a TLA+ string cannot hold
Ascii == <<" ", "!", "\"", "#", "$", "%", "&", "'", "(", ")", "*", "+", ",", "-", ".", "/",
    "0", "1", "2", "3", "4", "5", "6", "7", "8", "9", ":", ";", "<", "=", ">", "?", "@",
    "A", "B", "C", "D", "E", "F", "G", "H", "I", "J", "K", "L", "M", "N", "O", "P", "Q",
    "R", "S", "T", "U", "V", "W", "X", "Y", "Z", "[", "\\", "]", "^", "_", "GRAVE", "a", "b",
    "c", "d", "e", "f", "g", "h", "i", "j", "k", "l", "m", "n", "o", "p", "q", "r", "s",
    "t", "u", "v", "w", "x", "y", "z", "{", "|", "}", "~">>

Chars == {Ascii[i] : i \in 1..Len(Ascii)}

\* position of a character in Ascii: monotone in its code point
OrdOf == [c \in Chars |-> CHOOSE i \in 1..Len(Ascii) : Ascii[i] = c]

Ord(c) == OrdOf[c]

\* str.lower() on one character: "A".."Z" are Ascii[34..59], "a".."z" are Ascii[66..91]
LowerOf == [c \in Chars |-> IF OrdOf[c] \in 34..59 THEN Ascii[OrdOf[c] + 32] ELSE c]

LowerChar(c) == LowerOf[c]

\* str.lower()
Lower(s) == [i \in 1..Len(s) |-> LowerChar(s[i])]

\* s.startswith(p)
StartsWith(s, p) == Len(s) >= Len(p) /\ SubSeq(s, 1, Len(p)) = p

\* sub in s
Contains(sub, s) == \E i \in 0..(Len(s) - Len(sub)) : SubSeq(s, i + 1, i + Len(sub)) = sub

\* a < b for Python str: the first differing character decides, a proper prefix is smaller
StrLess(a, b) ==
    \E k \in 1..(Len(b)) :
        /\ k <= Len(a) + 1
        /\ SubSeq(a, 1, k - 1) = SubSeq(b, 1, k - 1)
        /\ \/ k = Len(a) + 1
           \/ Ord(a[k]) < Ord(b[k])

\* str(n) for n >= 0, as in an f-string
RECURSIVE IntToStr(_)
IntToStr(n) ==
    IF n < 10 THEN <<Ascii[17 + n]>>
    ELSE Append(IntToStr(n \div 10), Ascii[17 + (n % 10)])

----------------------------------------------------------------------------
(* Classifier: extract_clinical_info *)

\* evidence_strength in hundredths: 0.95, 0.85, 0.6, 0.7 are 95, 85, 60, 70
EvidenceStrength(abstract) ==
    IF Contains(<<"s","y","s","t","e","m","a","t","i","c"," ","r","e","v","i","e","w">>, abstract) THEN 95
    ELSE IF Contains(<<"r","a","n","d","o","m","i","z","e","d">>, abstract) THEN 85
    ELSE IF Contains(<<"c","a","s","e"," ","s","t","u","d","y">>, abstract) THEN 60
    ELSE 70

\* IntTimes10 with round() in the place of int(): the nearest integer, and
\* the even one when two are as near
IntTimes10_Rounded(strength) ==
    LET q == strength \div 10
        r == strength % 10
    IN  IF r > 5 \/ (r = 5 /\ q % 2 = 1) THEN q + 1 ELSE q

\* int(evidence_strength * 10): the products 9.5, 8.5, 6.0, 7.0 are exact in
\* binary floating point and int() truncates toward zero
IntTimes10(strength) == strength \div 10

\* the (node_type, color) branch
NodeClass(abstract) ==
    IF Contains(<<"m","u","s","c","l","e">>, abstract) \/ Contains(<<"f","a","t","i","g","u","e">>, abstract)
        THEN [type |-> "cause", color |-> "#ff9800"]
    ELSE IF Contains(<<"n","e","r","v","e">>, abstract) \/ Contains(<<"c","o","m","p","r","e","s","s","i","o","n">>, abstract)
        THEN [type |-> "cause", color |-> "#3f51b5"]
    ELSE IF Contains(<<"v","a","s","c","u","l","a","r">>, abstract) \/ Contains(<<"b","l","o","o","d"," ","f","l","o","w">>, abstract)
        THEN [type |-> "cause", color |-> "#9c27b0"]
    ELSE [type |-> "evidence", color |-> "#607d8b"]

\* The node built from a paper.  label, clinicalInfo.description and
\* clinicalInfo.evidence are display texts no operation reads back; they are
\* left out.  clinicalInfo.references[0] keeps title, year and pmid.
extract_clinical_info(p) ==
    LET abstract == Lower(p.abstract)
        evidence_strength == EvidenceStrength(abstract)
    IN  [id |-> <<"p","a","p","e","r","-">> \o p.pmid,
         type |-> NodeClass(abstract).type,
         size |-> 15 + IntTimes10(evidence_strength),
         importance |-> evidence_strength,
         color |-> NodeClass(abstract).color,
         clinicalInfo |-> [title |-> p.title, year |-> p.year, pmid |-> p.pmid]]

----------------------------------------------------------------------------
(* Duplicate detector: check_duplicate_title, with difflib.SequenceMatcher *)

\* length of the longest common run a[i:i+k] = b[j:j+k] inside a[:ahi], b[:bhi]
\* (0-based, half-open, as in difflib)
RECURSIVE RunLength(_, _, _, _, _, _)
RunLength(a, b, i, j, ahi, bhi) ==
    IF i < ahi /\ j < bhi /\ a[i + 1] = b[j + 1]
    THEN 1 + RunLength(a, b, i + 1, j + 1, ahi, bhi)
    ELSE 0

\* the maximal matching blocks (i, j, k), k > 0, inside a[alo:ahi], b[blo:bhi]
MatchingBlocks(a, b, alo, ahi, blo, bhi) ==
    {<<ij[1], ij[2], RunLength(a, b, ij[1], ij[2], ahi, bhi)>> :
        ij \in {c \in (alo..(ahi - 1)) \X (blo..(bhi - 1)) : a[c[1] + 1] = b[c[2] + 1]}}

\* SequenceMatcher.find_longest_match with no junk: a longest block; of the
\* longest, the one that starts earliest in a; of those, the earliest in b
find_longest_match(a, b, alo, ahi, blo, bhi) ==
    LET blocks == MatchingBlocks(a, b, alo, ahi, blo, bhi)
    IN  IF blocks = {} THEN <<alo, blo, 0>>
        ELSE CHOOSE m \in blocks : \A o \in blocks :
                \/ m[3] > o[3]
                \/ m[3] = o[3] /\ m[1] < o[1]
                \/ m[3] = o[3] /\ m[1] = o[1] /\ m[2] <= o[2]

\* sum of the sizes of SequenceMatcher.get_matching_blocks: the longest block,
\* then the same to its left and to its right
RECURSIVE MatchedChars(_, _, _, _, _, _)
MatchedChars(a, b, alo, ahi, blo, bhi) ==
    LET m == find_longest_match(a, b, alo, ahi, blo, bhi)
    IN  IF m[3] = 0 THEN 0
        ELSE m[3] + MatchedChars(a, b, alo, m[1], blo, m[2])
                  + MatchedChars(a, b, m[1] + m[3], ahi, m[2] + m[3], bhi)

\* SequenceMatcher(None, a, b).ratio() as the fraction num/den:
\* 2.0 * matches / (len(a) + len(b)), and 1.0 when both are empty.
\* (autojunk only acts on a second sequence of 200 or more characters)
ratio(a, b) ==
    IF Len(a) + Len(b) = 0 THEN [num |-> 1, den |-> 1]
    ELSE [num |-> 2 * MatchedChars(a, b, 0, Len(a), 0, Len(b)), den |-> Len(a) + Len(b)]

\* similarity > 0.8.  The float quotient of two small integers is the double
\* nearest to num/den, and 0.8 is the double nearest to 8/10, so the float
\* comparison agrees with the comparison of the fractions.
ExceedsThreshold(similarity) == similarity.num * 10 > 8 * similarity.den

IsPaperId(id) == StartsWith(id, <<"p","a","p","e","r","-">>)

\* 'clinicalInfo' in node
HasClinicalInfo(n) == "clinicalInfo" \in DOMAIN n

\* the (is_duplicate, duplicate_id) pair; None is <<>>
RECURSIVE check_duplicate_title(_, _)
check_duplicate_title(nodes, title) ==
    IF nodes = <<>> THEN <<FALSE, <<>> >>
    ELSE LET n == Head(nodes)
         IN  IF /\ IsPaperId(n.id)
                /\ HasClinicalInfo(n)
                /\ ExceedsThreshold(ratio(Lower(title), Lower(n.clinicalInfo.title)))
             THEN <<TRUE, n.id>>
             ELSE check_duplicate_title(Tail(nodes), title)

----------------------------------------------------------------------------
(* Relevance router: find_best_target_node *)

\* the five keyword groups, in the order of the code: the words looked for in
\* the content, the node-id substrings of the `if` branch and its increment,
\* those of the `elif` branch and its increment
RouteRules == <<
    [content |-> {<<"m","u","s","c","l","e">>, <<"f","a","t","i","g","u","e">>},
     primary |-> {<<"m","u","s","c","l","e","-","f","a","t","i","g","u","e">>, <<"g","a","s","t","r","o","c","n","e","m","i","u","s">>, <<"s","o","l","e","u","s">>}, pinc |-> 10,
     secondary |-> {<<"a","t","p">>, <<"l","a","c","t","a","t","e">>, <<"m","i","t","o","c","h","o","n","d","r","i","a","l">>}, sinc |-> 8],
    [content |-> {<<"n","e","r","v","e">>, <<"c","o","m","p","r","e","s","s","i","o","n">>, <<"n","e","u","r","o","p","a","t","h">>},
     primary |-> {<<"n","e","r","v","e","-","c","o","m","p","r","e","s","s","i","o","n">>}, pinc |-> 10,
     secondary |-> {<<"t","i","b","i","a","l","i","s">>, <<"f","i","b","u","l","a","r","i","s">>}, sinc |-> 7],
    [content |-> {<<"v","a","s","c","u","l","a","r">>, <<"b","l","o","o","d">>, <<"v","e","n","o","u","s">>},
     primary |-> {<<"v","a","s","c","u","l","a","r","-","i","n","s","u","f","f","i","c","i","e","n","c","y">>}, pinc |-> 10,
     secondary |-> {}, sinc |-> 0],
    [content |-> {<<"g","a","i","t">>, <<"b","i","o","m","e","c","h","a","n","i","c","a","l">>, <<"m","o","v","e","m","e","n","t">>},
     primary |-> {<<"b","i","o","m","e","c","h","a","n","i","c","a","l","-","d","y","s","f","u","n","c","t","i","o","n">>, <<"g","a","i","t","-","a","b","n","o","r","m","a","l","i","t","y">>}, pinc |-> 10,
     secondary |-> {<<"a","n","k","l","e">>, <<"h","i","p">>}, sinc |-> 7],
    [content |-> {<<"t","r","a","i","n","i","n","g">>, <<"e","x","e","r","c","i","s","e">>},
     primary |-> {<<"t","r","a","i","n","i","n","g","-","l","o","a","d">>, <<"o","v","e","r","u","s","e">>}, pinc |-> 8,
     secondary |-> {}, sinc |-> 0] >>

\* what one keyword group adds to the score of node_id
RuleIncrement(r, content, node_id) ==
    IF \E w \in r.content : Contains(w, content)
    THEN IF \E s \in r.primary : Contains(s, node_id) THEN r.pinc
         ELSE IF \E s \in r.secondary : Contains(s, node_id) THEN r.sinc
         ELSE 0
    ELSE 0

\* the score of one node: the five groups add up
Score(content, node_id) ==
    RuleIncrement(RouteRules[1], content, node_id)
    + RuleIncrement(RouteRules[2], content, node_id)
    + RuleIncrement(RouteRules[3], content, node_id)
    + RuleIncrement(RouteRules[4], content, node_id)
    + RuleIncrement(RouteRules[5], content, node_id)

\* content = abstract + ' ' + title, both lower-cased
Content(p) == Lower(p.abstract) \o <<" ">> \o Lower(p.title)

\* node_scores: (score, node_id) of the non-paper nodes that score above 0,
\* in the order of graph['nodes']
RECURSIVE NodeScores(_, _)
NodeScores(content, nodes) ==
    IF nodes = <<>> THEN <<>>
    ELSE LET n == Head(nodes)
             rest == NodeScores(content, Tail(nodes))
             score == Score(content, n.id)
         IN  IF IsPaperId(n.id) THEN rest
             ELSE IF score > 0 THEN <<<<score, n.id>>>> \o rest
             ELSE rest

\* (score, id) tuples compare by score, then by id
TupleLess(a, b) == a[1] < b[1] \/ (a[1] = b[1] /\ StrLess(a[2], b[2]))

\* FirstOfSortedReverse with the sort keyed on the score alone: the first
\* element of the highest score
FirstOfSortedReverse_ByScore(s) ==
    LET i == CHOOSE i \in 1..Len(s) :
                /\ \A j \in 1..Len(s) : s[j][1] <= s[i][1]
                /\ \A j \in 1..(i - 1) : s[j][1] < s[i][1]
    IN  s[i]

\* the element list.sort(reverse=True) puts first: the first one that no
\* other element exceeds
FirstOfSortedReverse(s) ==
    LET i == CHOOSE i \in 1..Len(s) :
                /\ \A j \in 1..Len(s) : ~TupleLess(s[i], s[j])
                /\ \A j \in 1..(i - 1) : TupleLess(s[j], s[i])
    IN  s[i]

find_best_target_node(p, g) ==
    LET node_scores == NodeScores(Content(p), g.nodes)
    IN  IF node_scores # <<>> THEN FirstOfSortedReverse(node_scores)[2]
        ELSE <<"c","a","l","f","-","p","a","i","n">>

----------------------------------------------------------------------------
(* Graph mutator: add_paper_to_graph *)

\* the edge label: the five characters of the Korean caption are written as
\* their code points
EdgeLabel(year) == <<"U+B17C", "U+BB38", " ", "U+C99D", "U+AC70", " ", "(">> \o year \o <<")">>

\* {n['id'] for n in graph['nodes']}
NodeIds(g) == {g.nodes[i].id : i \in 1..Len(g.nodes)}

\* node['x'] = ...; node['y'] = ...: the keys are added to the dict
SetPosition(n, rx, ry) ==
    [k \in DOMAIN n \cup {"x", "y"} |->
        IF k = "x" THEN rx ELSE IF k = "y" THEN ry ELSE n[k]]

\* AppendNode with the node put first
AppendNode_AtFront(nodes, n) == <<n>> \o nodes

\* graph['nodes'].append(node)
AppendNode(nodes, n) == Append(nodes, n)

\* NewEdge with source and target exchanged
NewEdge_Reversed(edges, n, target_node_id) ==
    [id |-> <<"e","d","g","e","-">> \o IntToStr(Len(edges) + 1),
     source |-> target_node_id,
     target |-> n.id,
     type |-> "evidence",
     weight |-> n.importance,
     label |-> EdgeLabel(n.clinicalInfo.year)]

\* the edge of a placed node, numbered from the edges there are
NewEdge(edges, n, target_node_id) ==
    [id |-> <<"e","d","g","e","-">> \o IntToStr(Len(edges) + 1),
     source |-> n.id,
     target |-> target_node_id,
     type |-> "evidence",
     weight |-> n.importance,
     label |-> EdgeLabel(n.clinicalInfo.year)]

\* the body of add_paper_to_graph after the identifier check
AddUnlessDuplicateTitle(g, n, p, rx, ry) ==
    LET dup == check_duplicate_title(g.nodes, p.title)
    IN  IF dup[1]
        THEN [graph |-> g, node |-> n,
              ret |-> <<FALSE, <<"D","u","p","l","i","c","a","t","e"," ","t","i","t","l","e"," ","(","s","i","m","i","l","a","r"," ","t","o"," ">> \o dup[2] \o <<")">> >>]
        ELSE LET target_node_id == find_best_target_node(p, g)
                 placed == SetPosition(n, rx, ry)
                 edge == NewEdge(g.edges, placed, target_node_id)
             IN  [graph |-> [nodes |-> AppendNode(g.nodes, placed),
                             edges |-> Append(g.edges, edge)],
                  node |-> placed,
                  ret |-> <<TRUE, <<"C","o","n","n","e","c","t","e","d"," ","t","o"," ">> \o target_node_id>>]

\* add_paper_to_graph without the identifier check
add_paper_to_graph_NoIdCheck(g, n, p, rx, ry) == AddUnlessDuplicateTitle(g, n, p, rx, ry)

\* The call add_paper_to_graph(graph, node, paper) with the two draws of
\* random.random() mapped to the coordinates rx, ry: the graph and the node
\* after the call, and the returned (success, message).
add_paper_to_graph(g, n, p, rx, ry) ==
    IF n.id \in NodeIds(g)
    THEN [graph |-> g, node |-> n, ret |-> <<FALSE, <<"A","l","r","e","a","d","y"," ","e","x","i","s","t","s"," ","(","s","a","m","e"," ","P","M","I","D",")">>>>]
    ELSE AddUnlessDuplicateTitle(g, n, p, rx, ry)

----------------------------------------------------------------------------
(* Bounds and inputs of the model *)

\* number of entries of SEARCH_QUERIES the run goes through (the list has 8)
NumQueries == 2

\* longest idlist a search returns (main asks for max_results=3)
MaxIds == 2

\* the record identifiers PubMed knows
PMIDs == {<<"1">>, <<"2">>, <<"3">>}

\* what efetch holds for each identifier
Record(pmid) ==
    IF pmid = <<"1">> THEN
        [pmid |-> pmid, title |-> <<"G","a","i","t">>,
         abstract |-> <<"S","y","s","t","e","m","a","t","i","c"," ","r","e","v","i","e","w"," ","o","f"," ","n","e","r","v","e"," ","c","o","m","p","r","e","s","s","i","o","n">>, year |-> <<"2","0","2","0">>]
    ELSE IF pmid = <<"2">> THEN
        [pmid |-> pmid, title |-> <<"g","a","i","t",".">>,
         abstract |-> <<"R","a","n","d","o","m","i","z","e","d"," ","m","u","s","c","l","e"," ","t","r","a","i","n","i","n","g">>, year |-> <<"2","0","2","1">>]
    ELSE
        [pmid |-> pmid, title |-> <<"g","a","i","t","?","?">>, abstract |-> <<>>, year |-> <<>>]

\* pairs of values of (random.random() - 0.5) * 400, which lies in [-200, 200)
Positions == {<<-200, 150>>, <<150, -200>>}

NoFile == [absent |-> TRUE]

NoPaper == [none |-> TRUE]

NoResult == <<FALSE, <<>> >>

EmptyGraph == [nodes |-> <<>>, edges |-> <<>>]

DomainNode(id, type, x, y) ==
    [id |-> id, type |-> type, size |-> 20, importance |-> 80, color |-> "#f44336",
     x |-> x, y |-> y]

DomainEdge(id, source, target) ==
    [id |-> id, source |-> source, target |-> target, type |-> "causes",
     weight |-> 80, label |-> <<>>]

\* a graph document of domain nodes only, its edges numbered edge-1, edge-2
FileA ==
    [nodes |-> << DomainNode(<<"c","a","l","f","-","p","a","i","n">>, "symptom", 0, 0),
                  DomainNode(<<"n","e","r","v","e","-","c","o","m","p","r","e","s","s","i","o","n">>, "cause", 100, -50),
                  DomainNode(<<"g","a","i","t","-","a","b","n","o","r","m","a","l","i","t","y">>, "cause", -100, 50) >>,
     edges |-> << DomainEdge(<<"e","d","g","e","-","1">>, <<"n","e","r","v","e","-","c","o","m","p","r","e","s","s","i","o","n">>, <<"c","a","l","f","-","p","a","i","n">>),
                  DomainEdge(<<"e","d","g","e","-","2">>, <<"g","a","i","t","-","a","b","n","o","r","m","a","l","i","t","y">>, <<"c","a","l","f","-","p","a","i","n">>) >>]

\* a graph document that holds a paper-derived node and its evidence edge;
\* its only edge is numbered 2 (edge-1 has been removed from the document)
FileB ==
    [nodes |-> << DomainNode(<<"s","o","l","e","u","s">>, "cause", 10, 10),
                  [id |-> <<"p","a","p","e","r","-","9">>, type |-> "evidence", size |-> 22, importance |-> 70,
                   color |-> "#607d8b",
                   clinicalInfo |-> [title |-> <<"H","i","p","s">>, year |-> <<"2","0","1","9">>, pmid |-> <<"9">>],
                   x |-> 150, y |-> -200] >>,
     edges |-> << [id |-> <<"e","d","g","e","-","2">>, source |-> <<"p","a","p","e","r","-","9">>, target |-> <<"s","o","l","e","u","s">>,
                   type |-> "evidence", weight |-> 70, label |-> EdgeLabel(<<"2","0","1","9">>)] >>]

\* a graph document with a paper-derived node that carries no clinicalInfo
FileC ==
    [nodes |-> << DomainNode(<<"c","a","l","f","-","p","a","i","n">>, "symptom", 0, 0),
                  [id |-> <<"p","a","p","e","r","-","8">>, type |-> "evidence", size |-> 22, importance |-> 70,
                   color |-> "#607d8b", x |-> -200, y |-> 150] >>,
     edges |-> << [id |-> <<"e","d","g","e","-","1">>, source |-> <<"p","a","p","e","r","-","8">>, target |-> <<"c","a","l","f","-","p","a","i","n">>,
                   type |-> "evidence", weight |-> 70, label |-> EdgeLabel(<<>>)] >>]

\* the documents GRAPH_FILE may hold when the run starts
Files == {NoFile, FileA, FileB, FileC}

\* the idlists a search may return
IdLists == UNION {[1..n -> PMIDs] : n \in 0..MaxIds}

----------------------------------------------------------------------------
(* Persistence: load_graph, save_graph *)

\* json.load of the document, or the empty graph when there is none
load_graph(f) == IF f = NoFile THEN EmptyGraph ELSE f

\* json.dump of the whole graph over the document
save_graph(g) == g

----------------------------------------------------------------------------
(* The run: main *)

Init ==
    /\ file \in Files
    /\ graph = EmptyGraph
    /\ added_count = 0
    /\ pc = "start"
    /\ qi = 1
    /\ pmids = <<>>
    /\ paper = NoPaper
    /\ result = NoResult
    /\ loads = 0
    /\ saves = 0

\* graph = load_graph(); added_count = 0
Load ==
    /\ pc = "start"
    /\ graph' = load_graph(file)
    /\ added_count' = 0
    /\ loads' = loads + 1
    /\ pc' = "query"
    /\ UNCHANGED <<file, qi, pmids, paper, result, saves>>

\* for query in SEARCH_QUERIES: pmids = search_pubmed(query, max_results=3)
Search ==
    /\ pc = "query"
    /\ qi <= NumQueries
    /\ \E ids \in IdLists : pmids' = ids
    /\ pc' = "pmid"
    /\ UNCHANGED <<file, graph, added_count, qi, paper, result, loads, saves>>

\* requests.get or response.json raises in search_pubmed: nothing in main
\* catches it
SearchRaises ==
    /\ pc = "query"
    /\ qi <= NumQueries
    /\ pc' = "crashed"
    /\ UNCHANGED <<file, graph, added_count, qi, pmids, paper, result, loads, saves>>

\* fetch_paper_details returns a paper; the rest of the loop body runs:
\* extract_clinical_info, add_paper_to_graph, the count.  The run has one
\* thread and nothing in add_paper_to_graph can raise between its two
\* appends, so the call is one step.
Process ==
    /\ pc = "pmid"
    /\ pmids # <<>>
    /\ LET p == Record(Head(pmids))
           n == extract_clinical_info(p)
       IN  \E pos \in Positions :
             LET r == add_paper_to_graph(graph, n, p, pos[1], pos[2])
             IN  /\ graph' = r.graph
                 /\ result' = r.ret
                 /\ added_count' = IF r.ret[1] THEN added_count + 1 ELSE added_count
    /\ pmids' = Tail(pmids)
    /\ UNCHANGED <<file, pc, qi, paper, loads, saves>>

\* fetch_paper_details returns None (no Article element): continue
FetchNone ==
    /\ pc = "pmid"
    /\ pmids # <<>>
    /\ result' = NoResult
    /\ pmids' = Tail(pmids)
    /\ UNCHANGED <<file, graph, added_count, pc, qi, paper, loads, saves>>

\* requests.get or ET.fromstring raises in fetch_paper_details: nothing in
\* main catches it
FetchRaises ==
    /\ pc = "pmid"
    /\ pmids # <<>>
    /\ pc' = "crashed"
    /\ UNCHANGED <<file, graph, added_count, qi, pmids, paper, result, loads, saves>>

\* the inner loop is exhausted: next query
NextQuery ==
    /\ pc = "pmid"
    /\ pmids = <<>>
    /\ qi' = qi + 1
    /\ pc' = "query"
    /\ UNCHANGED <<file, graph, added_count, pmids, paper, result, loads, saves>>

\* if added_count > 0: save_graph(graph)
Save ==
    /\ pc = "query"
    /\ qi > NumQueries
    /\ added_count > 0
    /\ file' = save_graph(graph)
    /\ saves' = saves + 1
    /\ pc' = "done"
    /\ UNCHANGED <<graph, added_count, qi, pmids, paper, result, loads>>

\* else: nothing is written
NoSave ==
    /\ pc = "query"
    /\ qi > NumQueries
    /\ added_count = 0
    /\ pc' = "done"
    /\ UNCHANGED <<file, graph, added_count, qi, pmids, paper, result, loads, saves>>

Next ==
    \/ Load
    \/ Search
    \/ SearchRaises
    \/ Process
    \/ FetchNone
    \/ FetchRaises
    \/ NextQuery
    \/ Save
    \/ NoSave

Spec == Init /\ [][Next]_vars

----------------------------------------------------------------------------
(* Properties of the run *)

\* the candidate node of the loop iteration about to run
Candidate == extract_clinical_info(Record(Head(pmids)))

\* a step of the inner loop in which add_paper_to_graph is called
IsAddCall ==
    /\ pc = "pmid"
    /\ pmids # <<>>
    /\ pmids' = Tail(pmids)
    /\ result' # NoResult

\* an add_paper_to_graph call that returns success
IsCommit == IsAddCall /\ result'[1]

LastNode(g) == g.nodes[Len(g.nodes)]

LastEdge(g) == g.edges[Len(g.edges)]

NodesWithId(g, id) == {i \in 1..Len(g.nodes) : g.nodes[i].id = id}

EdgesFrom(g, id) == {i \in 1..Len(g.edges) : g.edges[i].source = id}

\* C1: a paper whose candidate id is already a node id is rejected with the
\* "already exists" reason, and the node sequence and the edge sequence are
\* what they were before the call.
C1_Idempotence ==
    [][(IsAddCall /\ Candidate.id \in NodeIds(graph)) =>
        /\ result'[1] = FALSE
        /\ Contains(<<"a","l","r","e","a","d","y"," ","e","x","i","s","t","s">>, Lower(result'[2]))
        /\ graph'.nodes = graph.nodes
        /\ graph'.edges = graph.edges
        /\ added_count' = added_count]_vars

\* a paper committed in this run has been submitted again and rejected
C1_Witness ==
    /\ added_count > 0
    /\ result[1] = FALSE
    /\ Contains(<<"a","l","r","e","a","d","y"," ","e","x","i","s","t","s">>, Lower(result[2]))

\* invariant I4 of a graph: every paper-derived node is the only node of its
\* id and has exactly one edge leaving it, and every edge that leaves a paper
\* id has its node (both or neither)
I4(g) ==
    /\ \A i \in 1..Len(g.nodes) :
            IsPaperId(g.nodes[i].id) =>
                /\ Cardinality(NodesWithId(g, g.nodes[i].id)) = 1
                /\ Cardinality(EdgesFrom(g, g.nodes[i].id)) = 1
    /\ \A j \in 1..Len(g.edges) :
            IsPaperId(g.edges[j].source) => NodesWithId(g, g.edges[j].source) # {}

\* C2: the graph in memory satisfies I4 after every call, the paper just
\* committed has exactly one node and exactly one edge leaving it, and the
\* document satisfies I4 whenever it exists, so every state that save_graph
\* writes holds each paper node together with its edge.
C2_I4 ==
    /\ I4(graph)
    /\ file # NoFile => I4(file)
    /\ result[1] =>
            /\ graph.nodes # <<>>
            /\ IsPaperId(LastNode(graph).id)
            /\ Cardinality(NodesWithId(graph, LastNode(graph).id)) = 1
            /\ Cardinality(EdgesFrom(graph, LastNode(graph).id)) = 1

\* two papers were committed and the run saved them
C2_Witness ==
    /\ pc = "done"
    /\ saves = 1
    /\ added_count = 2
    /\ file = graph
    /\ \E i \in 1..Len(file.nodes) : IsPaperId(file.nodes[i].id)

\* C3 (invariant I3): the source and the target of every edge are ids of
\* nodes of the graph.
C3_I3 ==
    \A j \in 1..Len(graph.edges) :
        /\ graph.edges[j].source \in NodeIds(graph)
        /\ graph.edges[j].target \in NodeIds(graph)

\* int(s) of a string of decimal digits
RECURSIVE StrToInt(_)
StrToInt(s) ==
    IF s = <<>> THEN 0
    ELSE 10 * StrToInt(SubSeq(s, 1, Len(s) - 1)) + (Ord(s[Len(s)]) - 17)

\* the n of an edge id "edge-<n>"
EdgeIndex(id) == StrToInt(SubSeq(id, Len(<<"e","d","g","e","-">>) + 1, Len(id)))

\* C4 (invariant I2): the edge a commit appends is numbered one more than the
\* edges there were, and its id differs from, and is larger-indexed than, the
\* id of every edge already in the graph.
C4_I2 ==
    [][IsCommit =>
        /\ LastEdge(graph').id = <<"e","d","g","e","-">> \o IntToStr(Len(graph.edges) + 1)
        /\ \A j \in 1..Len(graph.edges) :
                /\ graph.edges[j].id # LastEdge(graph').id
                /\ EdgeIndex(graph.edges[j].id) < EdgeIndex(LastEdge(graph').id)]_vars

\* C5: whatever the fetch of an identifier does, the inner loop goes on to
\* the next identifier, and a fetch that yields no paper leaves the graph and
\* the count as they were.
C5_FetchFailureSkipped ==
    [][(pc = "pmid" /\ pmids # <<>>) =>
        /\ pc' = "pmid"
        /\ pmids' = Tail(pmids)
        /\ (result' = NoResult => graph' = graph /\ added_count' = added_count)]_vars

\* C6: the graph is loaded once, before any record; it is saved at most once,
\* and only by the step that ends the run; a run that has ended has called
\* save_graph exactly if it committed a paper, and the document of a run that
\* committed none is never written.
C6_Persistence ==
    /\ loads <= 1
    /\ (pc # "start" <=> loads = 1)
    /\ saves <= 1
    /\ saves = 1 => pc = "done"
    /\ pc \in {"done", "crashed"} => (saves = 1 <=> added_count > 0)
    /\ added_count = 0 => saves = 0

\* similarity >= 0.8
AtLeastThreshold(similarity) == similarity.num * 10 >= 8 * similarity.den

\* the paper-derived nodes with an evidence payload whose title is at least
\* 0.8 similar to the title given
SimilarNodes(g, title) ==
    {i \in 1..Len(g.nodes) :
        /\ IsPaperId(g.nodes[i].id)
        /\ HasClinicalInfo(g.nodes[i])
        /\ AtLeastThreshold(ratio(Lower(title), Lower(g.nodes[i].clinicalInfo.title)))}

Min(S) == CHOOSE x \in S : \A y \in S : x <= y

\* C8: a paper whose id is new is rejected as a duplicate title, naming the
\* first similar node and leaving the graph as it was, exactly if some
\* paper-derived node with a payload is at least 0.8 similar; it is accepted
\* otherwise.
C8_NearDuplicateGate ==
    [][(IsAddCall /\ Candidate.id \notin NodeIds(graph)) =>
        LET similar == SimilarNodes(graph, Record(Head(pmids)).title)
        IN  IF similar # {}
            THEN /\ result' = <<FALSE, <<"D","u","p","l","i","c","a","t","e"," ","t","i","t","l","e"," ","(","s","i","m","i","l","a","r"," ","t","o"," ">>
                                \o graph.nodes[Min(similar)].id \o <<")">> >>
                 /\ graph' = graph
            ELSE result'[1] = TRUE]_vars

\* the nodes that are not paper-derived, in order
DomainNodes(g) == SelectSeq(g.nodes, LAMBDA n : ~IsPaperId(n.id))

\* C10: a call leaves the nodes and the edges there were, with their fields
\* and their order, at the front of the two sequences; a rejected call adds
\* nothing; an accepted call adds one node, whose id starts with "paper-", at
\* the end of the nodes and one edge of type evidence, leaving that node with
\* the node's importance as weight, at the end of the edges; the nodes that
\* are not paper-derived are the same before and after.
C10_Frame ==
    [][IsAddCall =>
        /\ SubSeq(graph'.nodes, 1, Len(graph.nodes)) = graph.nodes
        /\ SubSeq(graph'.edges, 1, Len(graph.edges)) = graph.edges
        /\ DomainNodes(graph') = DomainNodes(graph)
        /\ ~result'[1] => graph' = graph
        /\ result'[1] =>
            /\ Len(graph'.nodes) = Len(graph.nodes) + 1
            /\ Len(graph'.edges) = Len(graph.edges) + 1
            /\ LastNode(graph').id = Candidate.id
            /\ IsPaperId(LastNode(graph').id)
            /\ LastEdge(graph').type = "evidence"
            /\ LastEdge(graph').source = LastNode(graph').id
            /\ LastEdge(graph').weight = LastNode(graph').importance]_vars

\* a paper was committed to a graph that held nodes and edges before
C10_Witness ==
    /\ result[1] = TRUE
    /\ Len(graph.nodes) >= 3
    /\ Len(graph.edges) >= 2
    /\ IsPaperId(LastNode(graph).id)
    /\ ~IsPaperId(graph.nodes[1].id)

----------------------------------------------------------------------------
(* The router on its own: find_best_target_node over graphs and papers *)

\* most nodes of a graph handed to the router
MaxNodes == 3

RouteNodeIds ==
    {<<"c","a","l","f","-","p","a","i","n">>, <<"g","a","s","t","r","o","c","n","e","m","i","u","s">>, <<"s","o","l","e","u","s">>, <<"a","t","p","-","d","e","p","l","e","t","i","o","n">>,
     <<"a","n","k","l","e","-","n","e","r","v","e","-","c","o","m","p","r","e","s","s","i","o","n">>, <<"t","i","b","i","a","l","i","s","-","p","o","s","t","e","r","i","o","r">>, <<"p","a","p","e","r","-","s","o","l","e","u","s">>}

\* the graphs of up to MaxNodes nodes of distinct ids, in every order
RouteGraphs ==
    UNION {
        {[nodes |-> [i \in 1..n |-> DomainNode(f[i], "cause", 0, 0)], edges |-> <<>>] :
            f \in {h \in [1..n -> RouteNodeIds] : \A a, b \in 1..n : h[a] = h[b] => a = b}} :
        n \in 0..MaxNodes}

RoutePapers ==
    {[pmid |-> <<"5">>, title |-> <<"H","o","p">>, abstract |-> <<"M","u","s","c","l","e"," ","f","a","t","i","g","u","e">>, year |-> <<"2","0","2","0">>],
     [pmid |-> <<"5">>, title |-> <<"N","e","u","r","o","p","a","t","h","y">>, abstract |-> <<>>, year |-> <<"2","0","2","0">>],
     [pmid |-> <<"5">>, title |-> <<"G","a","i","t">>, abstract |-> <<"n","e","r","v","e"," ","c","o","m","p","r","e","s","s","i","o","n"," ","a","n","d"," ","m","u","s","c","l","e">>,
      year |-> <<"2","0","2","0">>],
     [pmid |-> <<"5">>, title |-> <<"D","i","e","t">>, abstract |-> <<"v","i","t","a","m","i","n","s">>, year |-> <<"2","0","2","0">>],
     [pmid |-> <<"5">>, title |-> <<"L","o","a","d">>, abstract |-> <<"m","o","v","e","m","e","n","t"," ","t","r","a","i","n","i","n","g">>,
      year |-> <<"2","0","2","0">>]}

InitRoute ==
    /\ file = NoFile
    /\ graph \in RouteGraphs
    /\ added_count = 0
    /\ pc = "route"
    /\ qi = 1
    /\ pmids = <<>>
    /\ paper \in RoutePapers
    /\ result = NoResult
    /\ loads = 0
    /\ saves = 0

\* target_node_id = find_best_target_node(paper, graph)
Route ==
    /\ pc = "route"
    /\ result' = find_best_target_node(paper, graph)
    /\ pc' = "routed"
    /\ UNCHANGED <<file, graph, added_count, qi, pmids, paper, loads, saves>>

SpecRoute == InitRoute /\ [][Route]_vars

\* the orders in which the nodes of s can have been inserted
Orders(s) ==
    {[i \in 1..Len(s) |-> s[f[i]]] :
        f \in {h \in [1..Len(s) -> 1..Len(s)] : \A a, b \in 1..Len(s) : h[a] = h[b] => a = b}}

\* the non-paper nodes that score above zero for the paper
Scored(p, g) ==
    {i \in 1..Len(g.nodes) :
        ~IsPaperId(g.nodes[i].id) /\ Score(Content(p), g.nodes[i].id) > 0}

ScoreOf(p, g, i) == Score(Content(p), g.nodes[i].id)

\* C7: the target is the fallback "calf-pain" exactly if no non-paper node
\* scores above zero; otherwise it is the id of a non-paper node of the
\* highest score, the last in the order of the ids among those of that score;
\* it is the same for every insertion order of the nodes; and a node whose id
\* starts with "paper-" is never the scored target.
C7_TargetSelection ==
    pc = "routed" =>
        LET scored == Scored(paper, graph)
        IN  /\ result = <<"c","a","l","f","-","p","a","i","n">> <=> scored = {}
            /\ scored # {} =>
                /\ ~IsPaperId(result)
                /\ \E i \in scored :
                    /\ result = graph.nodes[i].id
                    /\ \A j \in scored :
                        \/ ScoreOf(paper, graph, j) < ScoreOf(paper, graph, i)
                        \/ /\ ScoreOf(paper, graph, j) = ScoreOf(paper, graph, i)
                           /\ ~StrLess(graph.nodes[i].id, graph.nodes[j].id)
            /\ \A nodes \in Orders(graph.nodes) :
                find_best_target_node(paper, [graph EXCEPT !.nodes = nodes]) = result

\* two nodes tie on the highest score, a paper-derived node whose id holds a
\* keyword is in the graph, and the node inserted first of the two is chosen
C7_Witness ==
    /\ pc = "routed"
    /\ \E k \in 1..Len(graph.nodes) : IsPaperId(graph.nodes[k].id)
    /\ \E i, j \in Scored(paper, graph) :
        /\ i < j
        /\ ScoreOf(paper, graph, i) = ScoreOf(paper, graph, j)
        /\ result = graph.nodes[i].id

----------------------------------------------------------------------------
(* The classifier on its own: extract_clinical_info over abstracts *)

ClassifyWords ==
    {<<"S","y","s","t","e","m","a","t","i","c"," ","R","e","v","i","e","w">>, <<"r","a","n","d","o","m","i","z","e","d">>, <<"C","a","s","e"," ","S","t","u","d","y">>, <<"m","u","s","c","l","e">>, <<"n","e","r","v","e">>,
     <<"b","l","o","o","d"," ","f","l","o","w">>, <<"f","a","t","i","g","u","e">>, <<"t","r","i","a","l">>, <<>>}

ClassifyPapers ==
    {[pmid |-> <<"7">>, title |-> <<"G","a","i","t">>, abstract |-> w1 \o <<" ">> \o w2, year |-> <<"2","0","2","0">>] :
        w1 \in ClassifyWords, w2 \in ClassifyWords}

InitClassify ==
    /\ file = NoFile
    /\ graph = EmptyGraph
    /\ added_count = 0
    /\ pc = "classify"
    /\ qi = 1
    /\ pmids = <<>>
    /\ paper \in ClassifyPapers
    /\ result = NoResult
    /\ loads = 0
    /\ saves = 0

\* node = extract_clinical_info(paper)
Classify ==
    /\ pc = "classify"
    /\ result' = extract_clinical_info(paper)
    /\ pc' = "classified"
    /\ UNCHANGED <<file, graph, added_count, qi, pmids, paper, loads, saves>>

SpecClassify == InitClassify /\ [][Classify]_vars

\* the strength the first matching study-design phrase gives, in hundredths
StrengthByFirstMatch(p) ==
    LET abstract == Lower(p.abstract)
        review == Contains(<<"s","y","s","t","e","m","a","t","i","c"," ","r","e","v","i","e","w">>, abstract)
        trial == Contains(<<"r","a","n","d","o","m","i","z","e","d">>, abstract)
        case == Contains(<<"c","a","s","e"," ","s","t","u","d","y">>, abstract)
    IN  /\ review => result.importance = 95
        /\ ~review /\ trial => result.importance = 85
        /\ ~review /\ ~trial /\ case => result.importance = 60
        /\ ~review /\ ~trial /\ ~case => result.importance = 70

\* C9 as amended: the strength is given by the first match, and the size is
\* 15 plus the strength times ten cut to an integer: 24, 23, 21 and 22 for
\* 0.95, 0.85, 0.60 and 0.70.
C9_SizeTruncated ==
    pc = "classified" =>
        /\ StrengthByFirstMatch(paper)
        /\ result.importance = 95 => result.size = 24
        /\ result.importance = 85 => result.size = 23
        /\ result.importance = 60 => result.size = 21
        /\ result.importance = 70 => result.size = 22

\* round(strength * 10) for a strength in hundredths: the nearest integer,
\* and the even one when two are as near (9.5 gives 10, 8.5 gives 8); rounding
\* halves up gives 10 for 9.5 as well
RoundTimes10(strength) ==
    LET q == strength \div 10
        r == strength % 10
    IN  IF r > 5 \/ (r = 5 /\ q % 2 = 1) THEN q + 1 ELSE q

\* C9: the strength is given by the first match, and the size is
\* 15 + round(strength * 10).
C9_SizeRounded ==
    pc = "classified" =>
        /\ StrengthByFirstMatch(paper)
        /\ result.size = 15 + RoundTimes10(result.importance)

\* an abstract that names a systematic review and a randomized trial has been
\* classified: strength 0.95, size 24
C9_Witness ==
    /\ pc = "classified"
    /\ Contains(<<"s","y","s","t","e","m","a","t","i","c"," ","r","e","v","i","e","w">>, Lower(paper.abstract))
    /\ Contains(<<"r","a","n","d","o","m","i","z","e","d">>, Lower(paper.abstract))
    /\ result.importance = 95
    /\ result.size = 24

====
